---- MODULE Spec2Model ----
(***************************************************************************)
(* Model of make_mockups3.py: the batch driver (main), the per-artwork     *)
(* loop over the mockups table (process_webp_image), the output file name  *)
(* derivation, the placement arithmetic and the per-pixel overlay blend.   *)
(*                                                                         *)
(* Four specifications share the variables:                                *)
(*   Spec       the batch run over one directory listing                   *)
(*   SpecName   the output file name derived from one input path           *)
(*   SpecPlace  scale and paste offset of one rotated artwork              *)
(*   SpecBlend  the overlay blend of one pixel                             *)
(* Text is modelled as sequences of one-character strings.                 *)
(***************************************************************************)
EXTENDS Integers, Sequences, FiniteSets, TLC

VARIABLES
    \* ---- batch run (main, process_webp_image) ----
    dir,            \* what os.listdir(INPUT_FOLDER) returns: a sequence of names
    dirOK,          \* FALSE when os.listdir raises
    undecodable,    \* names whose Image.open(...).convert raises
    badOverlays,    \* mockup keys whose overlay file fails to open
    pc,             \* position in main / process_webp_image
    files,          \* main's local `files`
    idx,            \* position of main's for loop in `files` (1-based)
    artwork,        \* process_webp_image's local `artwork`
    base_name,      \* process_webp_image's local `base_name`
    cfg,            \* position of the for loop over mockups.items() (1-based)
    canvas,         \* process_webp_image's local `canvas`
    saved,          \* OUTPUT_FOLDER: output path -> image last saved there
    log,            \* sequence of the run's events, in print order
    \* ---- file name derivation ----
    nPath,          \* the input path
    nKeep,          \* the part of the name in front of nBody that must survive
    nBody,          \* the rest of the name's stem
    nKey,           \* the mockup key
    nOut,           \* output_filename
    npc,
    \* ---- placement ----
    config,         \* one mockup configuration (the four integers)
    rotated,        \* size of rotated_artwork
    final_size,     \* size of final_artwork
    paste,          \* (paste_x, paste_y)
    ppc,
    \* ---- overlay blend of one pixel ----
    canvas_px,      \* RGB of the canvas pixel
    overlay_px,     \* RGB of the overlay pixel
    alpha,          \* alpha of the overlay pixel
    shadow_opacity, \* SHADOW_OPACITY in tenths
    soft_blend,     \* RGB of the soft_blend pixel
    handle_mask,    \* the handle_mask pixel
    final_px,       \* RGB of the final_rgb pixel
    bpc

batchVars == <<dir, dirOK, undecodable, badOverlays, pc, files, idx, artwork,
               base_name, cfg, canvas, saved, log>>
nameVars  == <<nPath, nKeep, nBody, nKey, nOut, npc>>
placeVars == <<config, rotated, final_size, paste, ppc>>
blendVars == <<canvas_px, overlay_px, alpha, shadow_opacity, soft_blend,
               handle_mask, final_px, bpc>>
vars == <<batchVars, nameVars, placeVars, blendVars>>

(***************************************************************************)
(* Bounds of the model.                                                    *)
(***************************************************************************)
MaxFiles   == 3     \* longest directory listing
MaxBodyLen == 2     \* longest free part of a file name
MaxAnchor  == 2     \* artwork_x, artwork_y range over -MaxAnchor..MaxAnchor
MaxTarget  == 3     \* artwork_width, artwork_height range over 1..MaxTarget
MaxRotated == 3     \* rotated artwork sides range over 1..MaxRotated
MaxColour  == 3     \* sample colours 0..MaxColour

(***************************************************************************)
(* Text helpers.                                                           *)
(***************************************************************************)
SetMax(S) == CHOOSE m \in S : \A n \in S : n <= m

StartsWith(s, p) == Len(s) >= Len(p) /\ SubSeq(s, 1, Len(p)) = p

EndsWith(s, p) == Len(s) >= Len(p) /\ SubSeq(s, Len(s) - Len(p) + 1, Len(s)) = p

\* str.rfind, 1-based, 0 when absent
LastIndexOf(s, c) ==
    LET I == {i \in 1..Len(s) : s[i] = c}
    IN  IF I = {} THEN 0 ELSE SetMax(I)

LowerChar(c) ==
    CASE c = "W" -> "w"
      [] c = "E" -> "e"
      [] c = "B" -> "b"
      [] c = "P" -> "p"
      [] c = "I" -> "i"
      [] c = "M" -> "m"
      [] c = "G" -> "g"
      [] OTHER   -> c

\* str.lower
Lower(s) == [i \in 1..Len(s) |-> LowerChar(s[i])]

\* code points of the characters that occur in directory entries
Ord(c) ==
    CASE c = "." -> 46
      [] c = "B" -> 66
      [] c = "E" -> 69
      [] c = "P" -> 80
      [] c = "W" -> 87
      [] c = "_" -> 95
      [] c = "a" -> 97
      [] c = "b" -> 98
      [] c = "c" -> 99
      [] c = "e" -> 101
      [] c = "g" -> 103
      [] c = "i" -> 105
      [] c = "m" -> 109
      [] c = "n" -> 110
      [] c = "p" -> 112
      [] c = "w" -> 119
      [] OTHER   -> 0

\* s <= t in the order of Python's str comparison
RECURSIVE LexLeq(_, _)
LexLeq(s, t) ==
    IF s = <<>> THEN TRUE
    ELSE IF t = <<>> THEN FALSE
    ELSE IF Ord(Head(s)) < Ord(Head(t)) THEN TRUE
    ELSE IF Ord(Head(s)) > Ord(Head(t)) THEN FALSE
    ELSE LexLeq(Tail(s), Tail(t))

\* os.path.basename
basename(p) == SubSeq(p, LastIndexOf(p, "/") + 1, Len(p))

\* os.path.splitext(p)[0]: cut at the last dot, unless only dots precede it
\* in the last path component
splitext_root(p) ==
    LET sepIndex == LastIndexOf(p, "/")
        dotIndex == LastIndexOf(p, ".")
    IN  IF /\ dotIndex > sepIndex
           /\ \E k \in (sepIndex + 1)..(dotIndex - 1) : p[k] # "."
        THEN SubSeq(p, 1, dotIndex - 1)
        ELSE p

\* os.path.join(folder, name) for a relative name
path_join(folder, name) == folder \o <<"/">> \o name

(***************************************************************************)
(* Constants of the script.                                                *)
(***************************************************************************)
INPUT_FOLDER  == <<"o","u","t","p","u","t","_","w","e","b","p">>
OUTPUT_FOLDER == <<"o","u","t","p","u","t","2">>

IMG_  == <<"i","m","g","_">>
DOT_WEBP == <<".","w","e","b","p">>
SMALL == <<"s","m","a","l","l">>
LARGE == <<"l","a","r","g","e">>

\* the keys of the mockups table, in declaration order
mockups == <<"mockup_30x40_tr", "mockup_60x80_tr">>

(***************************************************************************)
(* Output file name (process_webp_image).                                  *)
(***************************************************************************)
original_base_of(webp_path) == splitext_root(basename(webp_path))

BaseName_KeepExtension(webp_path) ==
    LET b == basename(webp_path)
    IN  IF StartsWith(b, IMG_) THEN SubSeq(b, 5, Len(b)) ELSE b

BaseName(webp_path) ==
    LET original_base == original_base_of(webp_path)
    IN  IF StartsWith(original_base, IMG_)
        THEN SubSeq(original_base, 5, Len(original_base))
        ELSE original_base

new_prefix(key) == IF key = "mockup_30x40_tr" THEN SMALL ELSE LARGE

OutputFilename(base, key) == new_prefix(key) \o <<"_">> \o base \o DOT_WEBP

OutputPath(base, key) == path_join(OUTPUT_FOLDER, OutputFilename(base, key))

(***************************************************************************)
(* Idle values: what a specification leaves the other parts' variables at. *)
(***************************************************************************)
IdleBatch ==
    /\ dir = <<>> /\ dirOK = TRUE /\ undecodable = {} /\ badOverlays = {}
    /\ pc = "idle" /\ files = <<>> /\ idx = 0 /\ artwork = <<>>
    /\ base_name = <<>> /\ cfg = 0 /\ canvas = <<>> /\ saved = <<>> /\ log = <<>>

IdleName ==
    /\ nPath = <<>> /\ nKeep = <<>> /\ nBody = <<>> /\ nKey = "" /\ nOut = <<>>
    /\ npc = "idle"

IdlePlace ==
    /\ config = <<>> /\ rotated = <<>> /\ final_size = <<>> /\ paste = <<>>
    /\ ppc = "idle"

IdleBlend ==
    /\ canvas_px = <<>> /\ overlay_px = <<>> /\ alpha = 0 /\ shadow_opacity = 0
    /\ soft_blend = <<>> /\ handle_mask = 0 /\ final_px = <<>> /\ bpc = "idle"

(***************************************************************************)
(* SpecName: process_webp_image's file name derivation on one path.        *)
(* The path is put together from a directory part, a leading part, a free  *)
(* body and an extension, so that the expected result is known by          *)
(* construction and not by running the derivation.                         *)
(***************************************************************************)
\* sequences over S of length 0..n
RECURSIVE SeqsUpTo(_, _)
SeqsUpTo(S, n) ==
    IF n = 0 THEN {<<>>}
    ELSE LET shorter == SeqsUpTo(S, n - 1)
         IN  shorter \cup {Append(s, c) : s \in shorter, c \in S}

NameDirs == { <<>>, <<"d",".","x","/">>, INPUT_FOLDER \o <<"/">> }

\* <<leading part, what must remain of it in the output name>>
NameLeads ==
    { << <<>>, <<>> >>,
      << IMG_, <<>> >>,
      << IMG_ \o IMG_, IMG_ >>,
      << <<"i","m","g">>, <<"i","m","g">> >>,
      << <<"I","M","G","_">>, <<"I","M","G","_">> >> }

NameBodies == SeqsUpTo({"a", "."}, MaxBodyLen)

NameExts ==
    { <<>>, DOT_WEBP, <<".","p","n","g">>, <<".","W","E","B","P">>,
      <<".">>, <<".","a">> }

HasNonDot(s) == \E i \in 1..Len(s) : s[i] # "."

\* a dot with a character other than a dot somewhere in front of it
HasInnerDot(s) == \E i, j \in 1..Len(s) : i < j /\ s[i] # "." /\ s[j] = "."

\* stem and ext are the name's stem and extension (the extension starts at
\* the name's last dot, and a name's leading dots start no extension)
IsNameSplit(stem, ext) ==
    /\ stem \o ext # <<>>
    /\ ext # <<>> => HasNonDot(stem)
    /\ ext = <<>> => ~HasInnerDot(stem)

InitName ==
    /\ IdleBatch /\ IdlePlace /\ IdleBlend
    /\ \E d \in NameDirs, l \in NameLeads, b \in NameBodies, e \in NameExts :
         /\ IsNameSplit(l[1] \o b, e)
         /\ nPath = d \o l[1] \o b \o e
         /\ nKeep = l[2]
         /\ nBody = b
    /\ nKey \in {mockups[i] : i \in 1..Len(mockups)}
    /\ nOut = <<>>
    /\ npc = "path"

\* lines 74-76 and 141-143 for one path and one key
DeriveName ==
    /\ npc = "path"
    /\ nOut' = OutputFilename(BaseName(nPath), nKey)
    /\ npc' = "named"
    /\ UNCHANGED <<nPath, nKeep, nBody, nKey, batchVars, placeVars, blendVars>>

NextName == DeriveName

SpecName == InitName /\ [][NextName]_vars

\* C5: the output file name is <prefix>_<base>.webp, <base> being the input
\* file name without directory and extension and with one leading "img_"
\* removed; small for mockup_30x40_tr, large for mockup_60x80_tr; the
\* extension is .webp whatever the input's extension is.
C5_OutputName ==
    npc = "named" =>
        nOut = (IF nKey = "mockup_30x40_tr" THEN SMALL ELSE LARGE)
               \o <<"_">> \o nKeep \o nBody \o <<".","w","e","b","p">>

\* img_<body>.png-like input: an "img_" was removed and the input's
\* extension was not .webp
C5_Witness ==
    /\ npc = "named"
    /\ StartsWith(basename(nPath), IMG_)
    /\ EndsWith(nPath, <<".","p","n","g">>)
    /\ nBody = <<"a", ".">>
    /\ nKey = "mockup_60x80_tr"

(***************************************************************************)
(* SpecPlace: scaling and positioning of one rotated artwork               *)
(* (process_webp_image, "Rotate and Scale Artwork" and "Positioning").     *)
(* Halves are kept exact by working in half pixels where needed.           *)
(***************************************************************************)
\* Python's int() of the float n/2: truncation toward zero
IntOfHalves(n) == IF n >= 0 THEN n \div 2 ELSE -((-n) \div 2)

\* int(side * scale) where the exact product is num/den (num, den > 0).
\* The product is an IEEE double: when it is exactly an integer k the
\* rounding of the two divisions can leave the double just below k (rotated
\* 3x6 with target 4x6 gives height 6, not 7), so both outcomes are kept.
IntOfProduct(num, den) ==
    IF num % den = 0
    THEN {num \div den, (num \div den) - 1}
    ELSE {num \div den}

\* sizes final_artwork can have: scale = (scale_x + scale_y) / 2 with
\* scale_x = artwork_width / rw and scale_y = artwork_height / rh, so
\* rw * scale = (artwork_width * rh + artwork_height * rw) / (2 * rh)
FinalSizes(c, rw, rh) ==
    LET twice == c.artwork_width * rh + c.artwork_height * rw
    IN  IntOfProduct(twice, 2 * rh) \X IntOfProduct(twice, 2 * rw)

\* twice desired_center_x (resp. _y) for an anchor and a target side
desired_center2(anchor, target) == 2 * anchor + target

PasteOffset_TopLeft(anchor, target, side) == anchor

\* paste_x = int(desired_center_x - final_artwork.width / 2)
PasteOffset(anchor, target, side) ==
    IntOfHalves(desired_center2(anchor, target) - side)

Configs ==
    [artwork_x : -MaxAnchor..MaxAnchor, artwork_y : -MaxAnchor..MaxAnchor,
     artwork_width : 1..MaxTarget, artwork_height : 1..MaxTarget]

InitPlace ==
    /\ IdleBatch /\ IdleName /\ IdleBlend
    /\ config \in Configs
    /\ rotated \in (1..MaxRotated) \X (1..MaxRotated)
    /\ final_size = <<>>
    /\ paste = <<>>
    /\ ppc = "rotated"

\* lines 91-98, resize succeeds
ScaleArtwork ==
    /\ ppc = "rotated"
    /\ \E sz \in FinalSizes(config, rotated[1], rotated[2]) :
         /\ sz[1] >= 1 /\ sz[2] >= 1
         /\ final_size' = sz
    /\ ppc' = "scaled"
    /\ UNCHANGED <<config, rotated, paste, batchVars, nameVars, blendVars>>

\* lines 95-98, resize to an empty size raises and nothing catches it
ResizeError ==
    /\ ppc = "rotated"
    /\ \E sz \in FinalSizes(config, rotated[1], rotated[2]) :
         /\ sz[1] < 1 \/ sz[2] < 1
         /\ final_size' = sz
    /\ ppc' = "raised"
    /\ UNCHANGED <<config, rotated, paste, batchVars, nameVars, blendVars>>

\* lines 102-106
Position ==
    /\ ppc = "scaled"
    /\ paste' = << PasteOffset(config.artwork_x, config.artwork_width, final_size[1]),
                   PasteOffset(config.artwork_y, config.artwork_height, final_size[2]) >>
    /\ ppc' = "pasted"
    /\ UNCHANGED <<config, rotated, final_size, batchVars, nameVars, blendVars>>

NextPlace == ScaleArtwork \/ ResizeError \/ Position

SpecPlace == InitPlace /\ [][NextPlace]_vars

Abs(n) == IF n >= 0 THEN n ELSE -n

\* C8: the centre of the pasted artwork's bounding box is within 1 pixel, on
\* each axis, of (artwork_x + artwork_width/2, artwork_y + artwork_height/2).
\* Stated in half pixels: twice the centre is paste + paste + side.
C8_CentreWithinOnePixel ==
    ppc = "pasted" =>
        /\ Abs((2 * paste[1] + final_size[1])
               - (2 * config.artwork_x + config.artwork_width)) <= 2
        /\ Abs((2 * paste[2] + final_size[2])
               - (2 * config.artwork_y + config.artwork_height)) <= 2

\* a pasted artwork wider than its target box, reaching past the left edge
C8_Witness ==
    /\ ppc = "pasted"
    /\ final_size[1] > config.artwork_width + 2
    /\ paste[1] < 0
    /\ paste[2] > 0

\* C9: paste_x = floor(center_x - scaled.width/2) and
\* paste_y = floor(center_y - scaled.height/2), negative offsets included.
C9_PasteOffsetIsFloor ==
    ppc = "pasted" =>
        /\ paste[1] = (2 * config.artwork_x + config.artwork_width - final_size[1]) \div 2
        /\ paste[2] = (2 * config.artwork_y + config.artwork_height - final_size[2]) \div 2

(***************************************************************************)
(* SpecBlend: the overlay blend of one pixel (process_webp_image, "Overlay *)
(* Processing with Soft Multiply Blend" and "Masking the Handle Area").    *)
(* A pixel is a triple of channels 0..255; the opacity is in tenths.       *)
(***************************************************************************)
\* ImageChops.multiply on one channel
MultiplyChannel(a, b) == (a * b) \div 255

\* Image.blend on one channel, im1 + alpha * (im2 - im1) cut to an integer.
\* alpha 0 and alpha 1 copy im1 and im2. In between the sum is a float: when
\* it is exactly an integer k its rounding may leave it just below k, so
\* both k and k - 1 are kept.
BlendChannel(c1, c2, tenths) ==
    IF tenths = 0 THEN {c1}
    ELSE IF tenths = 10 THEN {c2}
    ELSE IF c1 = c2 THEN {c1}
    ELSE LET n == 10 * c1 + tenths * (c2 - c1)
         IN  IF n % 10 = 0 THEN {n \div 10, (n \div 10) - 1} ELSE {n \div 10}

SoftBlend_FullMultiply(cv, ov, tenths) ==
    { << MultiplyChannel(cv[1], ov[1]), MultiplyChannel(cv[2], ov[2]),
         MultiplyChannel(cv[3], ov[3]) >> }

\* lines 125-127: values soft_blend can take for one pixel
SoftBlend(cv, ov, tenths) ==
    BlendChannel(cv[1], MultiplyChannel(cv[1], ov[1]), tenths)
    \X BlendChannel(cv[2], MultiplyChannel(cv[2], ov[2]), tenths)
    \X BlendChannel(cv[3], MultiplyChannel(cv[3], ov[3]), tenths)

HandleMask_Above(a) == IF a > 250 THEN 255 ELSE 0

\* line 133: alpha_channel.point(lambda a: 255 if a >= 250 else 0)
HandleMask(a) == IF a >= 250 THEN 255 ELSE 0

\* Pillow's rounding division by 255 of the paste with an L mask
Div255(x) == (((x + 128) \div 256) + (x + 128)) \div 256

\* Image.composite(image1, image2, mask) on one channel
CompositeChannel(c1, c2, m) == Div255(c2 * (255 - m) + c1 * m)

\* line 136
Composite(px1, px2, m) ==
    << CompositeChannel(px1[1], px2[1], m), CompositeChannel(px1[2], px2[2], m),
       CompositeChannel(px1[3], px2[3], m) >>

\* sample colours: 0 is the canvas's white
Colour(k) == << (255 - 55 * k) % 256, (255 - 155 * k) % 256, (255 - 85 * k) % 256 >>

Colours == { Colour(k) : k \in 0..MaxColour }

InitBlend ==
    /\ IdleBatch /\ IdleName /\ IdlePlace
    /\ canvas_px \in Colours
    /\ overlay_px \in Colours
    /\ alpha \in 0..255
    /\ shadow_opacity \in 0..10
    /\ soft_blend = <<>>
    /\ handle_mask = 0
    /\ final_px = <<>>
    /\ bpc = "converted"

\* lines 125-127
ComputeSoftBlend ==
    /\ bpc = "converted"
    /\ soft_blend' \in SoftBlend(canvas_px, overlay_px, shadow_opacity)
    /\ bpc' = "blended"
    /\ UNCHANGED <<canvas_px, overlay_px, alpha, shadow_opacity, handle_mask,
                   final_px, batchVars, nameVars, placeVars>>

\* lines 132-136
MaskAndComposite ==
    /\ bpc = "blended"
    /\ handle_mask' = HandleMask(alpha)
    /\ final_px' = Composite(overlay_px, soft_blend, HandleMask(alpha))
    /\ bpc' = "composited"
    /\ UNCHANGED <<canvas_px, overlay_px, alpha, shadow_opacity, soft_blend,
                   batchVars, nameVars, placeVars>>

NextBlend == ComputeSoftBlend \/ MaskAndComposite

SpecBlend == InitBlend /\ [][NextBlend]_vars

\* C6: a pixel is handle exactly when the overlay's alpha is >= 250; a
\* handle pixel of the composite is the overlay's RGB value, any other
\* pixel is the soft blend.
C6_HandleThreshold ==
    bpc = "composited" =>
        /\ alpha >= 250 => handle_mask = 255 /\ final_px = overlay_px
        /\ alpha <= 249 => handle_mask = 0 /\ final_px = soft_blend

\* alpha exactly 250, with an overlay colour the soft blend differs from
C6_Witness ==
    /\ bpc = "composited"
    /\ alpha = 250
    /\ soft_blend # overlay_px
    /\ shadow_opacity = 3

\* C7: with shadow_opacity = 0 a pixel outside the handle mask keeps the
\* canvas's RGB value; a handle pixel has the overlay's RGB value at every
\* opacity.
C7_ZeroOpacityKeepsCanvas ==
    bpc = "composited" =>
        /\ (shadow_opacity = 0 /\ handle_mask = 0) => final_px = canvas_px
        /\ handle_mask = 255 => final_px = overlay_px

\* opacity 0, no handle, on a canvas pixel the full multiply would darken
C7_Witness ==
    /\ bpc = "composited"
    /\ shadow_opacity = 0
    /\ handle_mask = 0
    /\ canvas_px # Colour(0)
    /\ << MultiplyChannel(canvas_px[1], overlay_px[1]),
          MultiplyChannel(canvas_px[2], overlay_px[2]),
          MultiplyChannel(canvas_px[3], overlay_px[3]) >> # canvas_px

(***************************************************************************)
(* Spec: one batch run (main and process_webp_image).                      *)
(* Rasters are abstract: a decoded image is its source path and the        *)
(* transforms applied to it, a canvas is the sequence of layers pasted on  *)
(* white. Every transform returns a new value, as rotate, resize and       *)
(* convert do; paste changes the canvas it is called on.                   *)
(***************************************************************************)
\* names the input folder can hold
FolderNames ==
    { IMG_ \o <<"a">> \o DOT_WEBP,
      IMG_ \o <<"b">> \o DOT_WEBP,
      IMG_ \o <<"a">> \o <<".","W","E","B","P">>,
      <<"a">> \o DOT_WEBP,
      IMG_ \o <<"c">> \o <<".","p","n","g">> }

\* sequences of distinct names, of length 0..n: a directory holds a name once
Listings(n) ==
    { l \in SeqsUpTo(FolderNames, n) :
        \A i, j \in 1..Len(l) : i # j => l[i] # l[j] }

Range(f) == { f[i] : i \in DOMAIN f }

\* line 69: Image.open(webp_path).convert("RGBA")
Decoded(webp_path) == [src |-> webp_path, transforms |-> <<>>]

\* line 87: artwork.rotate(config["rotation"], ..., expand=True)
Rotate(img, key) == [img EXCEPT !.transforms = Append(@, <<"rotate", key>>)]

\* lines 91-98: rotated_artwork.resize(...)
Resize(img, key) == [img EXCEPT !.transforms = Append(@, <<"resize", key>>)]

\* line 83: Image.new("RGBA", CANVAS_SIZE, (255, 255, 255, 255))
NewCanvas == <<>>

\* line 106: canvas.paste(final_artwork, (paste_x, paste_y), final_artwork)
Pasted(cv, img, key) == Append(cv, [layer |-> img, at |-> key])

\* lines 116-139: the export image made of a canvas and a key's overlay
Blended(cv, key) == [canvas |-> cv, overlay |-> key]

\* line 159
Selected(filename) ==
    EndsWith(Lower(filename), DOT_WEBP) /\ StartsWith(filename, IMG_)

Event(e, a, k) == [ev |-> e, art |-> a, key |-> k]

Init ==
    /\ IdleName /\ IdlePlace /\ IdleBlend
    /\ dir \in Listings(MaxFiles)
    /\ dirOK \in BOOLEAN
    /\ undecodable \in SUBSET Range(dir)
    /\ badOverlays \in SUBSET Range(mockups)
    /\ pc = "main"
    /\ files = <<>>
    /\ idx = 0
    /\ artwork = <<>>
    /\ base_name = <<>>
    /\ cfg = 0
    /\ canvas = <<>>
    /\ saved = <<>>
    /\ log = <<>>

setup == <<dir, dirOK, undecodable, badOverlays>>

\* lines 151-152, 157
ListDir ==
    /\ pc = "main" /\ dirOK
    /\ files' = dir
    /\ idx' = 1
    /\ pc' = "files"
    /\ UNCHANGED <<setup, artwork, base_name, cfg, canvas, saved, log,
                   nameVars, placeVars, blendVars>>

\* lines 153-155
ListDirError ==
    /\ pc = "main" /\ ~dirOK
    /\ pc' = "done"
    /\ UNCHANGED <<setup, files, idx, artwork, base_name, cfg, canvas, saved,
                   log, nameVars, placeVars, blendVars>>

\* lines 158-159, a name the filter rejects
SkipFile ==
    /\ pc = "files" /\ idx <= Len(files)
    /\ ~Selected(files[idx])
    /\ idx' = idx + 1
    /\ UNCHANGED <<setup, pc, files, artwork, base_name, cfg, canvas, saved,
                   log, nameVars, placeVars, blendVars>>

\* lines 160-162 and 68-76: the artwork opens
OpenArtwork ==
    /\ pc = "files" /\ idx <= Len(files)
    /\ Selected(files[idx])
    /\ files[idx] \notin undecodable
    /\ LET file_path == path_join(INPUT_FOLDER, files[idx])
       IN  /\ artwork' = Decoded(file_path)
           /\ base_name' = BaseName(file_path)
    /\ cfg' = 1
    /\ log' = Append(log, Event("file", files[idx], ""))
    /\ pc' = "render"
    /\ UNCHANGED <<setup, files, idx, canvas, saved, nameVars, placeVars, blendVars>>

OpenArtworkError_Abort ==
    /\ pc = "files" /\ idx <= Len(files)
    /\ Selected(files[idx])
    /\ files[idx] \in undecodable
    /\ log' = log \o << Event("file", files[idx], ""),
                        Event("artwork_error", files[idx], "") >>
    /\ pc' = "done"
    /\ UNCHANGED <<setup, files, idx, artwork, base_name, cfg, canvas, saved,
                   nameVars, placeVars, blendVars>>

\* lines 160-162 and 68-72: the artwork does not open; back to main's loop
OpenArtworkError ==
    /\ pc = "files" /\ idx <= Len(files)
    /\ Selected(files[idx])
    /\ files[idx] \in undecodable
    /\ log' = log \o << Event("file", files[idx], ""),
                        Event("artwork_error", files[idx], "") >>
    /\ idx' = idx + 1
    /\ UNCHANGED <<setup, pc, files, artwork, base_name, cfg, canvas, saved,
                   nameVars, placeVars, blendVars>>

PlaceOnCanvas_Reused ==
    /\ pc = "render" /\ cfg <= Len(mockups)
    /\ LET key == mockups[cfg]
           final_artwork == Resize(Rotate(artwork, key), key)
       IN  /\ canvas' = Pasted(canvas, final_artwork, key)
           /\ log' = Append(log, Event("render", files[idx], key))
    /\ pc' = "overlay"
    /\ UNCHANGED <<setup, files, idx, artwork, base_name, cfg, saved,
                   nameVars, placeVars, blendVars>>

\* lines 79-106: next key of the table, new canvas, rotate, scale, paste
PlaceOnCanvas ==
    /\ pc = "render" /\ cfg <= Len(mockups)
    /\ LET key == mockups[cfg]
           final_artwork == Resize(Rotate(artwork, key), key)
       IN  /\ canvas' = Pasted(NewCanvas, final_artwork, key)
           /\ log' = Append(log, Event("render", files[idx], key))
    /\ pc' = "overlay"
    /\ UNCHANGED <<setup, files, idx, artwork, base_name, cfg, saved,
                   nameVars, placeVars, blendVars>>

OverlayError_Return ==
    /\ pc = "overlay"
    /\ mockups[cfg] \in badOverlays
    /\ log' = Append(log, Event("overlay_error", files[idx], mockups[cfg]))
    /\ idx' = idx + 1
    /\ pc' = "files"
    /\ UNCHANGED <<setup, files, artwork, base_name, cfg, canvas, saved,
                   nameVars, placeVars, blendVars>>

\* lines 109-114: the overlay does not open; continue with the next key
OverlayError ==
    /\ pc = "overlay"
    /\ mockups[cfg] \in badOverlays
    /\ log' = Append(log, Event("overlay_error", files[idx], mockups[cfg]))
    /\ cfg' = cfg + 1
    /\ pc' = "render"
    /\ UNCHANGED <<setup, files, idx, artwork, base_name, canvas, saved,
                   nameVars, placeVars, blendVars>>

\* lines 109-147: the overlay opens; blend, resize, save
BlendAndSave ==
    /\ pc = "overlay"
    /\ mockups[cfg] \notin badOverlays
    /\ LET key == mockups[cfg]
           output_path == OutputPath(base_name, key)
           final_image == Blended(canvas, key)
       IN  saved' = [p \in DOMAIN saved \cup {output_path} |->
                        IF p = output_path THEN final_image ELSE saved[p]]
    /\ log' = Append(log, Event("saved", files[idx], mockups[cfg]))
    /\ cfg' = cfg + 1
    /\ pc' = "render"
    /\ UNCHANGED <<setup, files, idx, artwork, base_name, canvas,
                   nameVars, placeVars, blendVars>>

\* line 79 exhausted: process_webp_image returns to main's loop
EndArtwork ==
    /\ pc = "render" /\ cfg > Len(mockups)
    /\ idx' = idx + 1
    /\ pc' = "files"
    /\ UNCHANGED <<setup, files, artwork, base_name, cfg, canvas, saved, log,
                   nameVars, placeVars, blendVars>>

\* line 158 exhausted
EndMain ==
    /\ pc = "files" /\ idx > Len(files)
    /\ pc' = "done"
    /\ UNCHANGED <<setup, files, idx, artwork, base_name, cfg, canvas, saved,
                   log, nameVars, placeVars, blendVars>>

Next ==
    \/ ListDir \/ ListDirError \/ SkipFile \/ OpenArtwork \/ OpenArtworkError
    \/ PlaceOnCanvas \/ OverlayError \/ BlendAndSave \/ EndArtwork \/ EndMain

Spec == Init /\ [][Next]_vars

(***************************************************************************)
(* Properties of the batch run.                                            *)
(***************************************************************************)
\* the artworks of the listing: the names main hands to process_webp_image
Artworks == { f \in Range(dir) : Selected(f) }

Keys == Range(mockups)

Logged(e, a, k) == \E i \in 1..Len(log) : log[i] = Event(e, a, k)

KeyIndex(k) == CHOOSE i \in 1..Len(mockups) : mockups[i] = k

\* C1: with every artwork and every overlay decodable, a run over N
\* artworks and M configurations ends with exactly N x M output files.
C1_OneOutputPerPair ==
    (pc = "done" /\ dirOK /\ undecodable = {} /\ badOverlays = {}) =>
        Cardinality(DOMAIN saved) = Cardinality(Artworks) * Len(mockups)

\* C2: an artwork that fails to decode gets no render and no output under
\* any configuration, and every other artwork of the listing is still
\* rendered against every configuration, wherever the failing one stands.
C2_DecodeFailureSkipsArtworkOnly ==
    (pc = "done" /\ dirOK) =>
        \A f \in Artworks :
            /\ f \in undecodable =>
                 /\ Logged("artwork_error", f, "")
                 /\ \A k \in Keys : ~Logged("render", f, k) /\ ~Logged("saved", f, k)
                 /\ \A p \in DOMAIN saved :
                      saved[p].canvas[1].layer.src # path_join(INPUT_FOLDER, f)
            /\ f \notin undecodable =>
                 \A k \in Keys : Logged("render", f, k)

\* a failing artwork in the middle of three, the last one saved
C2_Witness ==
    /\ pc = "done"
    /\ Len(dir) = 3
    /\ Artworks = Range(dir)
    /\ undecodable = {dir[2]}
    /\ badOverlays = {}
    /\ Logged("saved", dir[1], mockups[1])
    /\ Logged("saved", dir[3], mockups[2])

\* C3: an overlay that fails to open costs only its own (artwork,
\* configuration) pairs: every decodable artwork is still rendered and
\* saved under every configuration whose overlay opens.
C3_OverlayFailureSkipsPairOnly ==
    (pc = "done" /\ dirOK) =>
        \A f \in Artworks \ undecodable : \A k \in Keys :
            /\ k \in badOverlays =>
                 Logged("overlay_error", f, k) /\ ~Logged("saved", f, k)
            /\ k \notin badOverlays =>
                 /\ Logged("render", f, k) /\ Logged("saved", f, k)
                 /\ OutputPath(BaseName(f), k) \in DOMAIN saved

\* the first configuration's overlay fails, the second is saved for two
\* artworks
C3_Witness ==
    /\ pc = "done"
    /\ badOverlays = {mockups[1]}
    /\ Len(dir) >= 2
    /\ Logged("overlay_error", dir[1], mockups[1])
    /\ Logged("saved", dir[1], mockups[2])
    /\ Logged("saved", dir[2], mockups[2])

\* C4: the artworks are rendered in lexicographic order of their file
\* names whatever order the listing has, and each artwork's configurations
\* in the order of the mockups table.
C4_FixedOrder ==
    pc = "done" =>
        \A i, j \in 1..Len(log) :
            (i < j /\ log[i].ev = "render" /\ log[j].ev = "render") =>
                /\ LexLeq(log[i].art, log[j].art)
                /\ log[i].art = log[j].art =>
                     KeyIndex(log[i].key) < KeyIndex(log[j].key)

\* C10: every render pastes on a new white canvas and starts from the
\* artwork as decoded; the image saved for a pair is made of that one layer
\* and the pair's overlay, whatever was rendered, skipped or failed before.
C10_RendersAreIndependent ==
    /\ pc \in {"render", "overlay"} =>
         artwork = [src |-> path_join(INPUT_FOLDER, files[idx]), transforms |-> <<>>]
    /\ pc = "overlay" =>
         canvas = << [layer |-> [src |-> path_join(INPUT_FOLDER, files[idx]),
                                 transforms |-> << <<"rotate", mockups[cfg]>>,
                                                   <<"resize", mockups[cfg]>> >>],
                      at |-> mockups[cfg]] >>
    /\ \A p \in DOMAIN saved :
         \E f \in Artworks, k \in Keys :
            /\ p = path_join(OUTPUT_FOLDER, OutputFilename(BaseName(f), k))
            /\ saved[p] =
                 [canvas |-> << [layer |-> [src |-> path_join(INPUT_FOLDER, f),
                                            transforms |-> << <<"rotate", k>>,
                                                              <<"resize", k>> >>],
                                 at |-> k] >>,
                  overlay |-> k]

\* the second configuration of a third artwork, after a save, an overlay
\* failure and an artwork that did not decode
C10_Witness ==
    /\ pc = "overlay"
    /\ idx = 3
    /\ cfg = 2
    /\ \E i \in 1..Len(log) : log[i].ev = "saved"
    /\ \E i \in 1..Len(log) : log[i].ev = "artwork_error"
    /\ \E i \in 1..Len(log) : log[i].ev = "overlay_error"

====
